---- MODULE Spec2Model ----
(***************************************************************************)
(* Model of app.py (Lip Decoder): the Streamlit session state, the four    *)
(* page branches of the script, the live recorder record_av_segment and    *)
(* the ANALYZE handler that drives the three imported collaborators.       *)
(*                                                                         *)
(* One user event (a click, an upload) starts one run of the script.  The  *)
(* handlers that call out to devices or collaborators are split at those   *)
(* calls, because each of them can fail; pc is the position of the run.    *)
(***************************************************************************)
EXTENDS Integers, Sequences, FiniteSets, TLC

\* ------------------------------------------------------------------ bounds
\* record_av_segment(duration): durations tried, in seconds
MaxDuration == 2
\* seconds that may pass between sd.rec(...) and start_time = time.time()
MaxSetup == 1
\* frames the camera delivers in one recording, at most (more than fps, so
\* that a camera faster than the writer's frame rate is covered)
MaxFrames == 21

\* --------------------------------------------------------------- constants
fs == 44100
fps == 20

None == "None"

\* no text yet (raw_text, the result container)
NoText == <<>>

\* no WAV written yet
NoWav == [len |-> 0, recorded |-> 0]

\* the five language buttons of page 3: name |-> code
Languages ==
  { <<"English", "en">>, <<"Tamil", "ta">>, <<"Hindi", "hi">>,
    <<"Kannada", "kn">>, <<"Telugu", "te">> }

\* names handed out by tempfile.NamedTemporaryFile, one token per call site
temp_vid == "temp_vid.mp4"
temp_audio == "temp_audio.wav"
final_output == "final_output.mp4"
tfile == "tfile.mp4"

\* what visual_feature_extraction may return (opaque to the caller)
Features == {"features_a", "features_b"}

\* ------------------------------------------------------------ collaborators
\* imported from utils; deterministic, opaque functions of their arguments
deep_lip_decode(p) == <<"transcript", p>>

translate_content(text, code) == <<"translated", text, code>>

\* ------------------------------------------------------------------- state
VARIABLES
  page, input_method, target_lang, target_lang_code, video_path,
  screen, uploaded,
  pc, trace, outcome, displayed, failed, raw_text, features,
  duration, now, start_time, cam_ok, cap, out, audio, frames, read_failed,
  files, wav, merge_fail, rm_failed, file_path,
  last_run

sessVars == <<page, input_method, target_lang, target_lang_code, video_path>>
uiVars == <<screen, uploaded>>
runVars == <<pc, trace, outcome, displayed, failed, raw_text, features>>
recVars == <<duration, now, start_time, cam_ok, cap, out, audio, frames,
             read_failed, files, wav, merge_fail, rm_failed, file_path>>
\* history: inputs and outputs of the latest pipeline run that completed,
\* and whether the run before it had the same inputs
histVars == <<last_run>>
vars == <<sessVars, uiVars, runVars, recVars, histVars>>

\* ------------------------------------------------------------ trace events
Progress(pct, label) == <<"progress", pct, label>>

Call(name, args) == <<"call", name, args>>

IsProgress(e) == e[1] = "progress"

IsCall(e) == e[1] = "call"

RECURSIVE SelectEvents(_, _)
SelectEvents(s, kind) ==
  IF s = <<>> THEN <<>>
  ELSE IF Head(s)[1] = kind
       THEN <<Head(s)[2]>> \o SelectEvents(Tail(s), kind)
       ELSE SelectEvents(Tail(s), kind)

\* the percentages the progress sink received, in order
ProgressValues(s) == SelectEvents(s, "progress")

\* the collaborators called, in order
CallNames(s) == SelectEvents(s, "call")

IsPrefix(s, t) == Len(s) <= Len(t) /\ SubSeq(t, 1, Len(s)) = s

\* ------------------------------------------------------------------- Init
\* a run of the script starts with nothing rendered by it yet
FreshRun ==
  /\ trace' = <<>>
  /\ outcome' = "none"
  /\ displayed' = NoText
  /\ failed' = None
  /\ raw_text' = NoText
  /\ features' = None

\* the locals of record_av_segment before it is entered
FreshRec ==
  /\ duration' = 0
  /\ now' = 0
  /\ start_time' = 0
  /\ cam_ok' = FALSE
  /\ cap' = "none"
  /\ out' = "none"
  /\ audio' = "none"
  /\ frames' = 0
  /\ read_failed' = FALSE
  /\ files' = {}
  /\ wav' = NoWav
  /\ merge_fail' = None
  /\ rm_failed' = FALSE
  /\ file_path' = None

Init ==
  /\ page = 1
  /\ input_method = None
  /\ target_lang = "English"
  /\ target_lang_code = "en"
  /\ video_path = None
  /\ screen = 1
  /\ uploaded = FALSE
  /\ pc = "idle"
  /\ trace = <<>>
  /\ outcome = "none"
  /\ displayed = NoText
  /\ failed = None
  /\ raw_text = NoText
  /\ features = None
  /\ duration = 0
  /\ now = 0
  /\ start_time = 0
  /\ cam_ok = FALSE
  /\ cap = "none"
  /\ out = "none"
  /\ audio = "none"
  /\ frames = 0
  /\ read_failed = FALSE
  /\ files = {}
  /\ wav = NoWav
  /\ merge_fail = None
  /\ rm_failed = FALSE
  /\ file_path = None
  /\ last_run = <<>>

\* -------------------------------------------------------------- navigation
\* variant: the splash page renders a Back button as well
Buttons_backOnSplash(p) ==
  CASE p = 1 -> {"Explore Now", "Back"}
    [] p = 2 -> {"Back", "Upload Video", "Live Video"}
    [] p = 3 -> {"Back"} \cup {l[1] : l \in Languages}
    [] p = 4 -> {"Start Over", "Start Recording", "ANALYZE LIP MOVEMENTS"}
    [] OTHER -> {}

\* the buttons each page branch renders
Buttons(p) ==
  CASE p = 1 -> {"Explore Now"}
    [] p = 2 -> {"Back", "Upload Video", "Live Video"}
    [] p = 3 -> {"Back"} \cup {l[1] : l \in Languages}
    [] p = 4 -> {"Start Over", "Start Recording", "ANALYZE LIP MOVEMENTS"}
    [] OTHER -> {}

next_page(p) == p + 1

prev_page(p) == p - 1

\* A click on button b of the rendered screen reruns the script, which
\* dispatches on the page variable; the button's handler runs only if the
\* branch taken renders a button of that identity.
NavClick(b) ==
  /\ UNCHANGED histVars
  /\ pc = "idle"
  /\ screen \in 1..3
  /\ b \in Buttons(screen)
  /\ screen' = page
  /\ UNCHANGED uploaded
  /\ FreshRun /\ FreshRec
  /\ pc' = "idle"
  /\ video_path' = video_path
  /\ IF b \notin Buttons(page)
     THEN UNCHANGED <<page, input_method, target_lang, target_lang_code>>
     ELSE CASE b = "Explore Now" ->
                 /\ page' = next_page(page)
                 /\ UNCHANGED <<input_method, target_lang, target_lang_code>>
            [] b = "Back" ->
                 /\ page' = prev_page(page)
                 /\ UNCHANGED <<input_method, target_lang, target_lang_code>>
            [] b = "Upload Video" ->
                 /\ input_method' = "upload"
                 /\ page' = next_page(page)
                 /\ UNCHANGED <<target_lang, target_lang_code>>
            [] b = "Live Video" ->
                 /\ input_method' = "live"
                 /\ page' = next_page(page)
                 /\ UNCHANGED <<target_lang, target_lang_code>>
            [] OTHER ->
                 /\ \E l \in Languages :
                      /\ l[1] = b
                      /\ target_lang' = l[1]
                      /\ target_lang_code' = l[2]
                 /\ page' = next_page(page)
                 /\ UNCHANGED input_method

\* variant: the callback forgets the page
reset_app_keepsPage ==
  /\ UNCHANGED histVars
  /\ pc = "idle"
  /\ screen = 4
  /\ page' = page
  /\ video_path' = None
  /\ input_method' = None
  /\ screen' = page
  /\ uploaded' = FALSE
  /\ FreshRun /\ FreshRec
  /\ pc' = "idle"
  /\ UNCHANGED <<target_lang, target_lang_code>>

\* variant: the callback forgets the video path
reset_app_keepsVideo ==
  /\ UNCHANGED histVars
  /\ pc = "idle"
  /\ screen = 4
  /\ page' = 1
  /\ video_path' = video_path
  /\ input_method' = None
  /\ screen' = 1
  /\ uploaded' = FALSE
  /\ FreshRun /\ FreshRec
  /\ pc' = "idle"
  /\ UNCHANGED <<target_lang, target_lang_code>>

\* Start Over carries on_click=reset_app: the callback runs, then the script
reset_app ==
  /\ UNCHANGED histVars
  /\ pc = "idle"
  /\ screen = 4
  /\ page' = 1
  /\ video_path' = None
  /\ input_method' = None
  /\ screen' = 1
  /\ uploaded' = FALSE
  /\ FreshRun /\ FreshRec
  /\ pc' = "idle"
  /\ UNCHANGED <<target_lang, target_lang_code>>

\* the path the upload branch of page 4 leaves in the session in this run
UploadBranch(method, up, vp) ==
  IF method = "upload" /\ up THEN tfile ELSE vp

\* the user puts a file into (or takes it out of) the file uploader
UploadFile ==
  /\ UNCHANGED histVars
  /\ pc = "idle"
  /\ screen = 4
  /\ page = 4
  /\ input_method = "upload"
  /\ uploaded' = ~uploaded
  /\ video_path' = UploadBranch(input_method, uploaded', video_path)
  /\ FreshRun /\ FreshRec
  /\ UNCHANGED <<page, input_method, target_lang, target_lang_code, screen, pc>>

\* ---------------------------------------------------------- ANALYZE handler
\* variant: the guard on the path is missing
NoInput_never(vp) == FALSE

\* `if not st.session_state.video_path`
NoInput(vp) == vp = None

\* variant: the failure is caught inside the handler, which renders what it
\* has
Raise_caught(name, args) ==
  /\ trace' = Append(trace, Call(name, args))
  /\ failed' = name
  /\ outcome' = "result"
  /\ displayed' = <<target_lang, NoText, raw_text>>
  /\ pc' = "idle"
  /\ UNCHANGED <<raw_text, features>>

\* a collaborator raised: nothing catches it, the run of the script ends
Raise(name, args) ==
  /\ trace' = Append(trace, Call(name, args))
  /\ failed' = name
  /\ outcome' = "exception"
  /\ pc' = "idle"
  /\ UNCHANGED <<displayed, raw_text, features>>

\* click on ANALYZE LIP MOVEMENTS: the script reruns page 4 (the upload
\* branch first), then the handler rejects an absent path or starts the bar
AnalyzeClick ==
  /\ UNCHANGED histVars
  /\ pc = "idle"
  /\ screen = 4
  /\ page = 4
  /\ FreshRec
  /\ video_path' = UploadBranch(input_method, uploaded, video_path)
  /\ displayed' = NoText
  /\ failed' = None
  /\ raw_text' = NoText
  /\ features' = None
  /\ IF NoInput(video_path')
     THEN /\ outcome' = "warning"
          /\ trace' = <<>>
          /\ pc' = "idle"
     ELSE /\ outcome' = "none"
          /\ trace' = <<Progress(0, "Initializing 3D-CNN Pipeline...")>>
          /\ pc' = "an_visual"
  /\ UNCHANGED <<page, input_method, target_lang, target_lang_code, uiVars>>

\* variant: the two bar.progress calls in the other order
BarAfterVisual_swapped ==
  << Progress(70, "Mapping Spatiotemporal Features..."),
     Progress(40, "Extracting Lip Landmarks & Geometry...") >>

\* the two bar.progress calls between Step A and Step B
BarAfterVisual ==
  << Progress(40, "Extracting Lip Landmarks & Geometry..."),
     Progress(70, "Mapping Spatiotemporal Features...") >>

\* variant: the text is derived from what Step A returned
DecodedText_visual(vp, f) == <<"transcript", vp, f>>

\* the text Step B yields for path vp; f is what Step A returned
DecodedText(vp, f) == deep_lip_decode(vp)

\* Step A: visual_feature_extraction(video_path), result dropped, then the
\* bar moves to 40 and to 70
AnalyzeVisual ==
  /\ UNCHANGED histVars
  /\ pc = "an_visual"
  /\ \/ Raise("visual_feature_extraction", <<video_path>>)
     \/ /\ \E f \in Features : features' = f
        /\ trace' = trace \o
             (<<Call("visual_feature_extraction", <<video_path>>)>>
                \o BarAfterVisual)
        /\ pc' = "an_decode"
        /\ UNCHANGED <<outcome, displayed, failed, raw_text>>
  /\ UNCHANGED <<sessVars, uiVars, recVars>>

\* Step B: raw_text = deep_lip_decode(video_path), then the bar moves to 90
AnalyzeDecode ==
  /\ UNCHANGED histVars
  /\ pc = "an_decode"
  /\ \/ Raise("deep_lip_decode", <<video_path>>)
     \/ /\ raw_text' = DecodedText(video_path, features)
        /\ trace' = trace \o
             << Call("deep_lip_decode", <<video_path>>),
                Progress(90, <<"Translating to", target_lang>>) >>
        /\ pc' = "an_translate"
        /\ UNCHANGED <<outcome, displayed, failed, features>>
  /\ UNCHANGED <<sessVars, uiVars, recVars>>

\* the run in progress has the inputs of the completed run r
SameInputs(r) ==
  r # <<>> /\ r[1] = video_path /\ r[2] = target_lang_code

\* variant: the handler puts the session's language back to the default
AnalyzeTranslate_resetsLang ==
  /\ pc = "an_translate"
  /\ \/ /\ Raise("translate_content", <<raw_text, target_lang_code>>)
        /\ UNCHANGED histVars
     \/ /\ trace' = trace \o
             << Call("translate_content", <<raw_text, target_lang_code>>),
                Progress(100, "Complete!") >>
        /\ displayed' =
             << target_lang,
                translate_content(raw_text, target_lang_code),
                raw_text >>
        /\ last_run' = <<video_path, target_lang_code, displayed'[3],
                         displayed'[2], SameInputs(last_run)>>
        /\ outcome' = "result"
        /\ pc' = "idle"
        /\ UNCHANGED <<failed, raw_text, features>>
  /\ target_lang' = "English"
  /\ target_lang_code' = "en"
  /\ UNCHANGED <<page, input_method, video_path, uiVars, recVars>>

\* Step C: translated = translate_content(raw_text, target_lang_code), the
\* bar moves to 100 and the result container is rendered
AnalyzeTranslate ==
  /\ pc = "an_translate"
  /\ \/ /\ Raise("translate_content", <<raw_text, target_lang_code>>)
        /\ UNCHANGED histVars
     \/ /\ trace' = trace \o
             << Call("translate_content", <<raw_text, target_lang_code>>),
                Progress(100, "Complete!") >>
        /\ displayed' =
             << target_lang,
                translate_content(raw_text, target_lang_code),
                raw_text >>
        /\ last_run' = <<video_path, target_lang_code, displayed'[3],
                         displayed'[2], SameInputs(last_run)>>
        /\ outcome' = "result"
        /\ pc' = "idle"
        /\ UNCHANGED <<failed, raw_text, features>>
  /\ UNCHANGED <<sessVars, uiVars, recVars>>

\* ------------------------------------------------------- record_av_segment
Min(a, b) == IF a < b THEN a ELSE b

\* time.time() - start_time
Elapsed == now - start_time

\* an exception leaves record_av_segment and the script: nothing below the
\* raising line runs
RecRaise(name) ==
  /\ failed' = name
  /\ outcome' = "exception"
  /\ pc' = "idle"
  /\ UNCHANGED <<trace, displayed, raw_text, features>>

\* click on Start Recording: record_av_segment(duration=d) is entered.
\* sd.rec starts the audio task (or raises when there is no input device),
\* cv2.VideoCapture(0) gives a handle whether or not the camera opened, the
\* three temporary files and the writer are created, start_time is taken.
StartRecording(d) ==
  /\ UNCHANGED histVars
  /\ pc = "idle"
  /\ screen = 4
  /\ page = 4
  /\ input_method = "live"
  /\ FreshRun
  /\ duration' = d
  /\ frames' = 0
  /\ read_failed' = FALSE
  /\ wav' = NoWav
  /\ merge_fail' = None
  /\ rm_failed' = FALSE
  /\ file_path' = None
  /\ \/ /\ pc' = "idle"
        /\ outcome' = "exception"
        /\ failed' = "sd.rec"
        /\ audio' = "none"
        /\ cap' = "none"
        /\ out' = "none"
        /\ cam_ok' = FALSE
        /\ files' = {}
        /\ now' = 0
        /\ start_time' = 0
     \/ /\ pc' = "r_loop"
        /\ outcome' = "none"
        /\ failed' = None
        /\ audio' = "recording"
        /\ \E ok \in BOOLEAN :
             /\ cam_ok' = ok
             /\ cap' = IF ok THEN "opened" ELSE "unopened"
        /\ out' = "open"
        /\ files' = {temp_vid, temp_audio, final_output}
        /\ \E s \in 0..MaxSetup :
             /\ now' = s
             /\ start_time' = s
  /\ UNCHANGED <<sessVars, uiVars>>

\* wall-clock time passes while the frame loop runs
Tick ==
  /\ UNCHANGED histVars
  /\ pc \in {"r_loop", "r_write", "r_preview"}
  /\ Elapsed < duration
  /\ now' = now + 1
  /\ UNCHANGED <<sessVars, uiVars, runVars, duration, start_time, cam_ok, cap,
                 out, audio, frames, read_failed, files, wav, merge_fail,
                 rm_failed, file_path>>

\* `while (time.time() - start_time) < duration` turns false
LoopExit ==
  /\ UNCHANGED histVars
  /\ pc = "r_loop"
  /\ ~(Elapsed < duration)
  /\ pc' = "r_stop"
  /\ UNCHANGED <<sessVars, uiVars, trace, outcome, displayed, failed, raw_text,
                 features, recVars>>

\* variant: a failed read is retried instead of leaving the loop
AfterRead_continue(ret) == IF ret THEN "r_write" ELSE "r_loop"

\* where the loop goes after `ret, frame = cap.read()`
AfterRead(ret) == IF ret THEN "r_write" ELSE "r_stop"

\* ret, frame = cap.read(); if not ret: break
ReadFrame ==
  /\ UNCHANGED histVars
  /\ pc = "r_loop"
  /\ Elapsed < duration
  /\ \E ret \in BOOLEAN :
       /\ ret => (cam_ok /\ frames < MaxFrames)
       /\ read_failed' = ~ret
       /\ pc' = AfterRead(ret)
  /\ UNCHANGED <<sessVars, uiVars, trace, outcome, displayed, failed, raw_text,
                 features, duration, now, start_time, cam_ok, cap, out, audio,
                 frames, files, wav, merge_fail, rm_failed, file_path>>

\* out.write(frame)
WriteFrame ==
  /\ UNCHANGED histVars
  /\ pc = "r_write"
  /\ \/ /\ RecRaise("out.write")
        /\ UNCHANGED frames
     \/ /\ frames' = frames + 1
        /\ pc' = "r_preview"
        /\ UNCHANGED <<trace, outcome, displayed, failed, raw_text, features>>
  /\ UNCHANGED <<sessVars, uiVars, duration, now, start_time, cam_ok, cap, out,
                 audio, read_failed, files, wav, merge_fail, rm_failed,
                 file_path>>

\* st_ph.image(cv2.cvtColor(frame, ...), caption="Recording...")
Preview ==
  /\ UNCHANGED histVars
  /\ pc = "r_preview"
  /\ \/ RecRaise("st_ph.image")
     \/ /\ pc' = "r_loop"
        /\ UNCHANGED <<trace, outcome, displayed, failed, raw_text, features>>
  /\ UNCHANGED <<sessVars, uiVars, recVars>>

\* variant: the join is missing, the buffer is read at once
SdWait_nowait(t, d) == t

\* the time at which sd.wait() returns: the audio task was started at time 0
\* for d seconds
SdWait(t, d) == IF t < d THEN d ELSE t

\* samples the audio task has put into myrecording so far
AudioFilled == IF audio = "none" THEN 0 ELSE Min(now, duration) * fs

\* cap.release(); out.release(); sd.wait(); write(temp_audio.name, fs,
\* myrecording): the whole buffer of int(duration * fs) samples is written,
\* of which the task has filled what the time since sd.rec allows
StopAndSave ==
  /\ UNCHANGED histVars
  /\ pc = "r_stop"
  /\ cap' = "released"
  /\ out' = "released"
  /\ now' = SdWait(now, duration)
  /\ audio' = IF now' >= duration THEN "joined" ELSE "recording"
  /\ wav' = [len |-> duration * fs, recorded |-> Min(now', duration) * fs]
  /\ pc' = "r_merge"
  /\ UNCHANGED <<sessVars, uiVars, trace, outcome, displayed, failed, raw_text,
                 features, duration, start_time, cam_ok, frames, read_failed,
                 files, merge_fail, rm_failed, file_path>>

\* the statements of the try block that can raise before the cleanup
MergeSteps == {"VideoFileClip", "AudioFileClip", "set_audio", "write_videofile"}

\* variant: the except branch returns the merged file's name as well
MergeResult_final(mf) == final_output

\* what record_av_segment returns: final_output.name, or temp_vid.name from
\* the except branch
MergeResult(mf) == IF mf = None THEN final_output ELSE temp_vid

\* try: os.remove(temp_vid.name); os.remove(temp_audio.name) except: pass
\* rv, ra: the first, the second os.remove raises
RemoveRaw(fl, rv, ra) ==
  IF rv THEN fl
  ELSE IF ra THEN fl \ {temp_vid}
       ELSE fl \ {temp_vid, temp_audio}

\* variant: the cleanup runs whether or not the merge raised
AfterMerge_always(fl, mf, rv, ra) == RemoveRaw(fl, rv, ra)

\* what the merge leaves on disk: the cleanup is reached only when no step
\* of the try block raised
AfterMerge(fl, mf, rv, ra) ==
  IF mf = None THEN RemoveRaw(fl, rv, ra) ELSE fl

\* the try/except of the merge (st.error shows the exception), the return,
\* and the caller's st.session_state.video_path = file_path
Merge ==
  /\ UNCHANGED histVars
  /\ pc = "r_merge"
  /\ \E mf \in MergeSteps \cup {None} :
       /\ merge_fail' = mf
       /\ file_path' = MergeResult(mf)
       /\ displayed' = IF mf = None THEN NoText ELSE <<"Merge Error", mf>>
       /\ \E rv, ra \in BOOLEAN :
            /\ files' = AfterMerge(files, mf, rv, ra)
            /\ rm_failed' = (mf = None /\ (rv \/ ra))
  /\ video_path' = file_path'
  /\ outcome' = "recorded"
  /\ pc' = "idle"
  /\ UNCHANGED <<page, input_method, target_lang, target_lang_code, uiVars,
                 trace, failed, raw_text, features, duration, now,
                 start_time, cam_ok, cap, out, audio, frames, read_failed, wav>>

\* ------------------------------------------------------------- the program
Next ==
  \/ \E b \in UNION {Buttons(p) : p \in 1..3} : NavClick(b)
  \/ reset_app
  \/ UploadFile
  \/ AnalyzeClick
  \/ AnalyzeVisual
  \/ AnalyzeDecode
  \/ AnalyzeTranslate
  \/ \E d \in 1..MaxDuration : StartRecording(d)
  \/ Tick
  \/ LoopExit
  \/ ReadFrame
  \/ WriteFrame
  \/ Preview
  \/ StopAndSave
  \/ Merge

Spec == Init /\ [][Next]_vars

TypeOK ==
  /\ page \in Int
  /\ input_method \in {None, "upload", "live"}
  /\ <<target_lang, target_lang_code>> \in Languages
  /\ video_path \in {None, tfile, temp_vid, final_output}
  /\ screen \in 1..4
  /\ uploaded \in BOOLEAN
  /\ pc \in {"idle", "an_visual", "an_decode", "an_translate",
              "r_loop", "r_write", "r_preview", "r_stop", "r_merge"}
  /\ outcome \in {"none", "warning", "result", "exception", "recorded"}
  /\ frames \in 0..MaxFrames
  /\ files \subseteq {temp_vid, temp_audio, final_output}

\* ------------------------------------------------------------------ claims
Collaborators ==
  <<"visual_feature_extraction", "deep_lip_decode", "translate_content">>

StagePercents == <<0, 40, 70, 90, 100>>

\* a run of record_av_segment has been left (by return or by exception)
RecExited == pc = "idle" /\ duration > 0

\* C1: an ANALYZE click that finds no video path in the session ends in the
\* warning, with no collaborator called, no progress event emitted and no
\* result rendered; and whenever the warning is up or the path is absent,
\* the trace of the run is empty and nothing is displayed.
C1_Step ==
  (AnalyzeClick /\ video_path' = None) =>
     /\ outcome' = "warning"
     /\ trace' = <<>>
     /\ displayed' = NoText
     /\ pc' = "idle"

C1_State ==
  (outcome = "warning" \/ video_path = None) =>
     /\ trace = <<>>
     /\ raw_text = NoText
     /\ outcome # "result"
     /\ pc \notin {"an_visual", "an_decode", "an_translate"}

C1_NoInputRejected == [][C1_Step]_vars /\ []C1_State

C1_Witness == outcome = "warning" /\ page = 4 /\ video_path = None

\* C2: the progress values of a run are always a prefix of 0,40,70,90,100
\* and the collaborators called a prefix of visual, decode, translate; a run
\* that rendered its result received all five values and made all three
\* calls, each once, in that order.
C2_StageOrder ==
  /\ IsPrefix(ProgressValues(trace), StagePercents)
  /\ IsPrefix(CallNames(trace), Collaborators)
  /\ outcome = "result" =>
       /\ ProgressValues(trace) = StagePercents
       /\ CallNames(trace) = Collaborators

C2_Witness == outcome = "result" /\ Len(trace) = 8

\* the percentage of the stage whose work is the call of collaborator c
StagePercent(c) ==
  CASE c = "visual_feature_extraction" -> 40
    [] c = "deep_lip_decode" -> 70
    [] c = "translate_content" -> 90

\* C3: every call of a collaborator is preceded, in the run's trace, by the
\* progress event carrying the percentage of that collaborator's stage.
C3_LabelBeforeWork ==
  \A i \in DOMAIN trace :
    IsCall(trace[i]) =>
      \E j \in 1..(i - 1) :
        IsProgress(trace[j]) /\ trace[j][2] = StagePercent(trace[i][2])

\* C4: the result rendered by a completed run is the transcript
\* deep_lip_decode(video_path) and its translation for the session's
\* target language code, whatever visual_feature_extraction returned.
C4_ResultIsDecodeThenTranslate ==
  outcome = "result" =>
    /\ displayed[3] = deep_lip_decode(video_path)
    /\ displayed[2] =
         translate_content(deep_lip_decode(video_path), target_lang_code)
    /\ features \in Features

C4_Witness ==
  /\ outcome = "result"
  /\ video_path = final_output
  /\ target_lang_code = "ta"
  /\ features = "features_b"

\* C5: once a collaborator has failed, the run is over with the exception:
\* the failed call is the last event of the trace (no later call, no later
\* progress event, no 100), and no result is rendered.
C5_FailurePropagates ==
  (\E k \in 1..3 : failed = Collaborators[k]) =>
     /\ outcome = "exception"
     /\ pc = "idle"
     /\ displayed = NoText
     /\ trace # <<>>
     /\ trace[Len(trace)][1] = "call"
     /\ trace[Len(trace)][2] = failed
     /\ \A i \in DOMAIN trace : IsProgress(trace[i]) => trace[i][2] # 100

C5_Witness == failed = "deep_lip_decode" /\ outcome = "exception"

\* C6: when a step of the merge failed, record_av_segment did not raise: it
\* showed the error and returned the raw video's path, which still exists
\* and is what the session's video path now holds.
C6_MergeFallback ==
  (RecExited /\ merge_fail # None) =>
     /\ outcome = "recorded"
     /\ failed = None
     /\ displayed = <<"Merge Error", merge_fail>>
     /\ file_path = temp_vid
     /\ video_path = temp_vid
     /\ temp_vid \in files

C6_Witness ==
  outcome = "recorded" /\ merge_fail = "AudioFileClip" /\ frames > 0

\* C7 as stated: after the merge step, completed or failed, neither raw
\* file exists.
C7_RawFilesDeleted ==
  outcome = "recorded" => temp_vid \notin files /\ temp_audio \notin files

\* C7 amended: after a merge that completed, with no os.remove failing,
\* neither raw file exists (and the raw audio is never removed while the raw
\* video stays); after a merge that failed, both raw files still exist.
C7_RawFilesDeletedOnSuccess ==
  outcome = "recorded" =>
    /\ (merge_fail = None /\ ~rm_failed) =>
         (temp_vid \notin files /\ temp_audio \notin files)
    /\ merge_fail = None => (temp_audio \notin files => temp_vid \notin files)
    /\ merge_fail # None => (temp_vid \in files /\ temp_audio \in files)
    /\ final_output \in files

C7_Witness ==
  /\ outcome = "recorded"
  /\ merge_fail = None
  /\ ~rm_failed
  /\ files = {final_output}

\* C8: whenever record_av_segment has been left, the camera handle and the
\* writer it created are released and the audio task it started is joined.
C8_ReleasedOnExit ==
  RecExited =>
    /\ cap \in {"none", "released"}
    /\ out \in {"none", "released"}
    /\ audio \in {"none", "joined"}

\* C9: when record_av_segment has been left and the audio device or the
\* camera could not be opened, it was left by an exception: no path was
\* returned, no merge was attempted, the session's video path was not set.
C9_DeviceUnavailable ==
  (RecExited /\ (failed = "sd.rec" \/ (cap # "none" /\ ~cam_ok))) =>
     /\ outcome = "exception"
     /\ file_path = None
     /\ wav = NoWav

\* C10: after a failed frame read the loop is left and no frame is added
\* to (or dropped from) those written before; the function does not raise
\* but goes on to join the audio task at its full duration and to write
\* the whole buffer of duration * fs samples, all of them recorded.
C10_Step == (read_failed /\ read_failed') => frames' = frames

C10_State ==
  read_failed =>
    /\ pc \in {"r_stop", "r_merge", "idle"}
    /\ failed = None
    /\ pc \in {"r_merge", "idle"} =>
         /\ audio = "joined"
         /\ now >= duration
         /\ wav = [len |-> duration * fs, recorded |-> duration * fs]

C10_ReadFailureStopsVideoOnly == [][C10_Step]_vars /\ []C10_State

C10_Witness ==
  /\ read_failed
  /\ cam_ok
  /\ frames > 0
  /\ outcome = "recorded"
  /\ wav.len = duration * fs

\* C11: once the raw files are saved, the WAV holds exactly duration * fs
\* samples and the frames written, played at the writer's fps, span at most
\* duration seconds (frames / fps <= duration).
C11_BufferSizes ==
  pc \in {"r_merge"} =>
    /\ wav.len = duration * fs
    /\ frames <= duration * fps

\* the run of the script is inside the pipeline (past the handler's guard)
InPipeline == pc \in {"an_visual", "an_decode", "an_translate"}

\* C12: no step of the pipeline changes the session's video path, target
\* language, input method or page (nor does the handler's guard change the
\* last three); and a run that completes with the video path and language
\* code of the previous completed run renders the same transcript and the
\* same translation as that run did.
C12_Step ==
  /\ InPipeline => UNCHANGED sessVars
  /\ (pc = "idle" /\ (InPipeline' \/ outcome' = "warning")) =>
       UNCHANGED <<page, input_method, target_lang, target_lang_code>>
  /\ (InPipeline /\ outcome' = "result" /\ SameInputs(last_run)) =>
       (displayed'[3] = last_run[3] /\ displayed'[2] = last_run[4])

C12_Idempotent == [][C12_Step]_vars

\* a second completed run on the inputs of the one before it
C12_Witness ==
  /\ outcome = "result"
  /\ last_run = <<video_path, target_lang_code, displayed[3], displayed[2],
                  TRUE>>
  /\ target_lang_code = "hi"

\* the frame loop is running
InFrameLoop == pc \in {"r_loop", "r_write", "r_preview"}

\* C13: the audio task is started before the frame loop is entered (so
\* before any frame is read); the WAV is written only once the join with
\* the audio task has returned, with every sample recorded, whether the
\* loop ended on the clock or on a failed read; and inside the loop a step
\* that adds a frame leaves the audio buffer as it is, a step in which the
\* audio buffer grows leaves the frames as they are.
C13_State ==
  /\ (InFrameLoop \/ pc \in {"r_stop", "r_merge"}) => audio # "none"
  /\ (frames > 0 \/ read_failed) => audio # "none"
  /\ InFrameLoop => wav = NoWav
  /\ wav # NoWav =>
       /\ audio = "joined"
       /\ now >= duration
       /\ wav.recorded = wav.len
       /\ wav.recorded = AudioFilled

C13_Step ==
  InFrameLoop =>
    /\ frames' # frames => AudioFilled' = AudioFilled
    /\ AudioFilled' # AudioFilled => frames' = frames

C13_AudioJoinedBeforeRead == [][C13_Step]_vars /\ []C13_State

\* the loop ran out of time with frames written, the WAV is saved
C13_Witness ==
  /\ pc = "r_merge"
  /\ ~read_failed
  /\ frames > 0
  /\ start_time < duration
  /\ wav.len = duration * fs

\* C14: whatever is clicked, on a fresh or on a stale screen, the page
\* number of the session is one of 1, 2, 3, 4.
C14_PageInRange == page \in 1..4

\* page 1 under a stale page-2 screen with an input method chosen: reached
\* only by Back clicks that went from page 3 down to page 1
C14_Witness == page = 1 /\ screen = 2 /\ input_method = "upload"

\* C15: from the language page on, an input method is chosen: page >= 3
\* implies input_method is "upload" or "live".
C15_InputChosen == page >= 3 => input_method \in {"upload", "live"}

\* the analysis page with its live branch active: a recording is running
C15_Witness == page = 4 /\ screen = 4 /\ input_method = "live" /\ pc = "r_loop"

\* C16: a video path in the session implies page 4 and the input method
\* that produced it (upload: tfile, live: the recorder's files); the only
\* step that leaves page 4 goes to page 1 and clears the video path and
\* the input method, leaving the target language name and code as they are.
C16_State ==
  /\ video_path # None => page = 4
  /\ video_path = tfile => input_method = "upload"
  /\ video_path \in {temp_vid, final_output} => input_method = "live"

C16_Step ==
  (page = 4 /\ page' # 4) =>
     /\ page' = 1
     /\ video_path' = None
     /\ input_method' = None
     /\ target_lang' = target_lang
     /\ target_lang_code' = target_lang_code

C16_VideoOnlyOnAnalysisPage == [][C16_Step]_vars /\ []C16_State

\* back on the splash page after Start Over, the chosen language kept
C16_Witness ==
  /\ page = 1
  /\ video_path = None
  /\ input_method = None
  /\ target_lang_code = "ta"
  /\ last_run # <<>>

====
